---- MODULE Spec2Model ----
(***************************************************************************)
(* Model of the request coalescer of src/CaseStudy/request_coalesce.ts:    *)
(* class Continuation (a Promise that is settled from outside) and class   *)
(* RequestCoalescer (lock + continuationQueue), run by the JavaScript      *)
(* event loop: one synchronous segment at a time, promise reactions        *)
(* (microtasks) before the next timer or network event (macrotask).        *)
(* The observation registrar of src/unnamed/part_004 and the binding       *)
(* decorators of src/unnamed/part_003 are modelled in sections of their    *)
(* own, on variables of their own, and so is the second definition of the  *)
(* coalescer, src/unnamed/part_002, run beside the first.                  *)
(***************************************************************************)
EXTENDS Naturals, Sequences, FiniteSets, TLC

\* Bound on the number of request() calls made on the coalescer.
MaxCalls == 4

\* Decoded payloads result.json() may produce, and messages of the errors
\* fetch() or result.json() may throw.
Payloads == {"p1", "p2"}
Messages == {"boom", "bang"}

VARIABLES
    lock,               \* RequestCoalescer.lock
    continuationQueue,  \* RequestCoalescer.continuationQueue: ids into conts
    conts,              \* the Continuation objects created so far
    errors,             \* the Error objects thrown so far (mutable .stack)
    calls,              \* the request() calls made so far
    microtasks,         \* callers whose await is due to resume, in job order
    segment,            \* who ran the last synchronous segment
    invocations,        \* number of someFetchRequest() invocations so far
    resumeLog           \* Continuation.resumeBy* calls in the order made

coalescerVars == <<lock, continuationQueue, conts, errors, calls, microtasks,
                   segment, invocations, resumeLog>>

\* src/unnamed/part_004
VARIABLES
    GLOBAL_ACCESS_LIST, \* index into accessLists (0: undefined)
    accessLists,        \* the AccessList objects created so far
    registrars,         \* _$observationRegistrar of each @Observable object
    store,              \* the private fields __$key of each object
    trackings,          \* the withObservationTracking calls made so far
    applying,           \* the calls whose apply is running, innermost last
    changes,            \* the onChange invocations in the order made
    uuids,              \* number of UUID() calls so far
    events,             \* number of steps the example code has made
    uncaught            \* a TypeError left a property setter

observationVars == <<GLOBAL_ACCESS_LIST, accessLists, registrars, store,
                     trackings, applying, changes, uuids, events, uncaught>>

\* src/unnamed/part_003
VARIABLES
    own,                \* the own printName property of each instance
    lastCall            \* the last printName call: how it was made, its this

decoratorVars == <<own, lastCall>>

\* The two definitions of the coalescer run side by side
VARIABLES
    caseStudy,          \* the coalescer of src/CaseStudy/request_coalesce.ts
    part002             \* the coalescer of src/unnamed/part_002

pairVars == <<caseStudy, part002>>

vars == <<coalescerVars, observationVars, decoratorVars, pairVars>>

\* The objects of the examples: two Suspects with two properties, and two
\* instances of each of NormalClass, AutobindMethod and AutobindClass.
Objects == {"suspect", "suspect2"}
KeyPaths == {"name", "suspciousness"}
Values == {"v1", "v2"}
Instances == {"na", "nb", "aa", "ab", "ca", "cb"}

\* A function with no argument: an object with no property.
Empty == [k \in {} |-> 0]

\* An instance without an own printName, and no call made yet.
NoOwn == [kind |-> "none", this |-> "none"]
NoCall == [from |-> "none", receiver |-> "none", fn |-> NoOwn, this |-> "none"]

\* The objects of part_004 right after lines 190-191, and those of part_003
\* right after lines 88-101 without the assignments.
ObservationStart ==
    /\ GLOBAL_ACCESS_LIST = 0
    /\ accessLists = <<>>
    /\ registrars = [o \in Objects |->
                        [lookups |-> Empty, observations |-> Empty]]
    /\ store = [o \in Objects |-> [k \in KeyPaths |-> "v1"]]
    /\ trackings = <<>>
    /\ applying = <<>>
    /\ changes = <<>>
    /\ uuids = 0
    /\ events = 0
    /\ uncaught = FALSE

DecoratorStart ==
    /\ own = [x \in Instances |-> NoOwn]
    /\ lastCall = NoCall

\* A coalescer right after `new RequestCoalescer()`, with no call made, and
\* the two coalescers that are run side by side.
NewRequestCoalescer ==
    [lock |-> FALSE, continuationQueue |-> <<>>, conts |-> <<>>,
     errors |-> <<>>, calls |-> <<>>, microtasks |-> <<>>,
     segment |-> "caller", resumeLog |-> <<>>]

PairStart ==
    /\ caseStudy = NewRequestCoalescer
    /\ part002 = NewRequestCoalescer

----------------------------------------------------------------------------
(* Promises *)

\* A promise that nothing has settled yet.
Pending == [state |-> "pending", value |-> "none", error |-> 0]

\* A resolve function that settles again a promise already settled.
PromiseResolveOverwrites(p, value) ==
    [p EXCEPT !.state = "resolved", !.value = value, !.error = 0]

\* The resolve function a Promise executor receives: it settles a pending
\* promise and is ignored by a promise that is already settled.
PromiseResolve(p, value) ==
    IF p.state = "pending"
    THEN [p EXCEPT !.state = "resolved", !.value = value]
    ELSE p

\* A reject function that settles again a promise already settled.
PromiseRejectOverwrites(p, e) ==
    [p EXCEPT !.state = "rejected", !.value = "none", !.error = e]

\* The reject function a Promise executor receives.
PromiseReject(p, e) ==
    IF p.state = "pending"
    THEN [p EXCEPT !.state = "rejected", !.error = e]
    ELSE p

\* The settlement part of a promise or continuation record.
Outcome(p) == [state |-> p.state, value |-> p.value, error |-> p.error]

----------------------------------------------------------------------------
(* class Continuation *)

\* new Continuation(): pending, with the creation stack minus its first two
\* lines ("Error" and the constructor's frame). What is left are the frames
\* of coalesce, of request and of the caller, call number c.
NewContinuation(c) ==
    [state |-> "pending", value |-> "none", error |-> 0,
     initialCallStack |-> <<"coalesce", "request", ToString(c)>>]

\* Continuation.resumeByReturning(value) on continuation k of heap h.
ContinuationResumeByReturning(h, k, value) ==
    [h EXCEPT !.conts[k] = PromiseResolve(@, value),
              !.log = Append(@, [cont |-> k, state |-> "resolved",
                                 value |-> value, error |-> 0])]

\* resumeByThrowing joining the whole of error.stack, not its first line,
\* with the creation stack.
ContinuationResumeByThrowingAppends(h, k, e) ==
    [h EXCEPT !.errors[e].stack = @ \o h.conts[k].initialCallStack,
              !.conts[k] = PromiseReject(@, e),
              !.log = Append(@, [cont |-> k, state |-> "rejected",
                                 value |-> "none", error |-> e])]

\* Continuation.resumeByThrowing(error) on continuation k of heap h: the
\* error's stack becomes its first line followed by the creation stack.
ContinuationResumeByThrowing(h, k, e) ==
    [h EXCEPT !.errors[e].stack =
                  <<Head(@)>> \o h.conts[k].initialCallStack,
              !.conts[k] = PromiseReject(@, e),
              !.log = Append(@, [cont |-> k, state |-> "rejected",
                                 value |-> "none", error |-> e])]

----------------------------------------------------------------------------
(* class RequestCoalescer *)

\* The objects a synchronous segment of the coalescer reads and writes.
Heap == [conts |-> conts, errors |-> errors, log |-> resumeLog]

\* coalesce() with unshift in place of push.
coalesceUnshift(q, k) == <<k>> \o q

\* RequestCoalescer.coalesce(): the new continuation goes to the queue's end.
coalesce(q, k) == Append(q, k)

\* continuationQueue.forEach((cont) => cont.resumeByReturning(result))
RECURSIVE ForEachResumeByReturning(_, _, _)
ForEachResumeByReturning(h, q, result) ==
    IF q = <<>> THEN h
    ELSE ForEachResumeByReturning(
             ContinuationResumeByReturning(h, Head(q), result), Tail(q), result)

\* continuationQueue.forEach((cont) => cont.resumeByThrowing(e))
RECURSIVE ForEachResumeByThrowing(_, _, _)
ForEachResumeByThrowing(h, q, e) ==
    IF q = <<>> THEN h
    ELSE ForEachResumeByThrowing(
             ContinuationResumeByThrowing(h, Head(q), e), Tail(q), e)

\* resumeByReturning with its two statements swapped: the queue is emptied
\* before it is walked.
resumeByReturningClearsFirst(h, q, result) ==
    [heap |-> ForEachResumeByReturning(h, <<>>, result), queue |-> <<>>]

\* resumeByReturning without line 108: the queue keeps its continuations.
resumeByReturningKeepsQueue(h, q, result) ==
    [heap |-> ForEachResumeByReturning(h, q, result), queue |-> q]

\* RequestCoalescer.resumeByReturning(result): the heap and the queue after.
resumeByReturning(h, q, result) ==
    [heap |-> ForEachResumeByReturning(h, q, result), queue |-> <<>>]

\* resumeByThrowing with its two statements swapped: the queue is emptied
\* before it is walked.
resumeByThrowingClearsFirst(h, q, e) ==
    [heap |-> ForEachResumeByThrowing(h, <<>>, e), queue |-> <<>>]

\* resumeByThrowing without line 113: the queue keeps its continuations.
resumeByThrowingKeepsQueue(h, q, e) ==
    [heap |-> ForEachResumeByThrowing(h, q, e), queue |-> q]

\* RequestCoalescer.resumeByThrowing(e): the heap and the queue after.
resumeByThrowing(h, q, e) ==
    [heap |-> ForEachResumeByThrowing(h, q, e), queue |-> <<>>]

----------------------------------------------------------------------------
(* The state after `new RequestCoalescer()` *)

Init ==
    /\ lock = FALSE
    /\ continuationQueue = <<>>
    /\ conts = <<>>
    /\ errors = <<>>
    /\ calls = <<>>
    /\ microtasks = <<>>
    /\ segment = "caller"
    /\ invocations = 0
    /\ resumeLog = <<>>
    /\ ObservationStart
    /\ DecoratorStart
    /\ PairStart

\* How the underlying operation of a call stands: a follower has none, a
\* leader's is running until it returned a payload or threw error e, whose
\* message was m when thrown.
NoOperation == [state |-> "none", value |-> "none", error |-> 0,
                message |-> "none"]
Running == [NoOperation EXCEPT !.state = "running"]
Returned(payload) == [NoOperation EXCEPT !.state = "returned",
                                         !.value = payload]
Threw(e, m) == [NoOperation EXCEPT !.state = "threw", !.error = e,
                                   !.message = m]

\* The calls whose underlying operation is executing (awaiting the fetch or
\* awaiting the decode).
InFlight ==
    {c \in DOMAIN calls : calls[c].role = "leader"
                          /\ calls[c].pc \in {"fetching", "decoding"}}

\* The leader a call arriving now would follow (0: there is none).
CurrentLeader == IF InFlight = {} THEN 0 ELSE CHOOSE c \in InFlight : TRUE

\* The request() call that was handed continuation k by coalesce().
CallOf(k) == CHOOSE c \in DOMAIN calls : calls[c].cont = k

\* A caller may run request() when its code is running: in the segment of a
\* caller that has just been resumed, or in a timer callback (thread), which
\* the event loop starts only when no promise reaction is waiting.
CallerRuns == segment = "caller" \/ microtasks = <<>>

\* request() with line 91's `return` left out: the continuation is queued
\* and the call goes on to run the operation itself.
RequestAsFollowerFallsThrough ==
    /\ Len(calls) < MaxCalls
    /\ CallerRuns
    /\ lock
    /\ LET c == Len(calls) + 1
           k == Len(conts) + 1
       IN /\ conts' = Append(conts, NewContinuation(c))
          /\ continuationQueue' = coalesce(continuationQueue, k)
          /\ calls' = Append(calls, [role |-> "leader", pc |-> "fetching",
                                     cont |-> k, leader |-> c,
                                     op |-> Running, promise |-> Pending])
    /\ invocations' = invocations + 1
    /\ segment' = "caller"
    /\ UNCHANGED <<lock, errors, microtasks, resumeLog>>
    /\ UNCHANGED <<observationVars, decoratorVars, pairVars>>

\* request() with the lock taken: line 91, `return this.coalesce()`. The
\* promise of the call follows the continuation, so it stays pending.
RequestAsFollower ==
    /\ Len(calls) < MaxCalls
    /\ CallerRuns
    /\ lock
    /\ LET c == Len(calls) + 1
           k == Len(conts) + 1
       IN /\ conts' = Append(conts, NewContinuation(c))
          /\ continuationQueue' = coalesce(continuationQueue, k)
          /\ calls' = Append(calls, [role |-> "follower", pc |-> "suspended",
                                     cont |-> k, leader |-> CurrentLeader,
                                     op |-> NoOperation,
                                     promise |-> Pending])
    /\ segment' = "caller"
    /\ UNCHANGED <<lock, errors, microtasks, invocations, resumeLog>>
    /\ UNCHANGED <<observationVars, decoratorVars, pairVars>>

\* request() without line 92's `this.lock = true`.
RequestAsLeaderNoLock ==
    /\ Len(calls) < MaxCalls
    /\ CallerRuns
    /\ ~lock
    /\ invocations' = invocations + 1
    /\ calls' = Append(calls, [role |-> "leader", pc |-> "fetching",
                               cont |-> 0, leader |-> Len(calls) + 1,
                               op |-> Running, promise |-> Pending])
    /\ segment' = "caller"
    /\ UNCHANGED <<lock, continuationQueue, conts, errors, microtasks,
                   resumeLog>>
    /\ UNCHANGED <<observationVars, decoratorVars, pairVars>>

\* request() with the lock free: lines 91-94 up to the first await, inside
\* someFetchRequest().
RequestAsLeader ==
    /\ Len(calls) < MaxCalls
    /\ CallerRuns
    /\ ~lock
    /\ lock' = TRUE
    /\ invocations' = invocations + 1
    /\ calls' = Append(calls, [role |-> "leader", pc |-> "fetching",
                               cont |-> 0, leader |-> Len(calls) + 1,
                               op |-> Running, promise |-> Pending])
    /\ segment' = "caller"
    /\ UNCHANGED <<continuationQueue, conts, errors, microtasks, resumeLog>>
    /\ UNCHANGED <<observationVars, decoratorVars, pairVars>>

\* The followers that the heap h settles, as calls, in the order h notifies
\* their continuations (the order their reaction jobs are queued in).
RECURSIVE Notified(_, _)
Notified(h, log) ==
    IF log = <<>> THEN <<>>
    ELSE LET k == Head(log).cont
         IN IF conts[k].state = "pending" /\ h.conts[k].state # "pending"
            THEN <<CallOf(k)>> \o Notified(h, Tail(log))
            ELSE Notified(h, Tail(log))

\* A completion after which the callers of the followers resume ahead of
\* the caller of the leader.
SettleWakesFollowersFirst(l, op, r, p) ==
    LET h == r.heap
        woken == Notified(h, SubSeq(h.log, Len(resumeLog) + 1, Len(h.log)))
        isWoken(c) == \E i \in DOMAIN woken : woken[i] = c
    IN /\ conts' = h.conts
       /\ errors' = h.errors
       /\ resumeLog' = h.log
       /\ continuationQueue' = r.queue
       /\ calls' = [c \in DOMAIN calls |->
                       IF c = l
                       THEN [calls[c] EXCEPT !.pc = "settled", !.op = op,
                                             !.promise = p]
                       ELSE IF isWoken(c)
                       THEN [calls[c] EXCEPT
                                !.pc = "settled",
                                !.promise = Outcome(h.conts[calls[c].cont])]
                       ELSE calls[c]]
       /\ microtasks' = microtasks \o woken \o <<l>>
       /\ segment' = "leader"
       /\ UNCHANGED invocations
       /\ UNCHANGED <<observationVars, decoratorVars, pairVars>>

\* The end of leader l's request(): op is how the underlying operation
\* ended, r what resumeByReturning or resumeByThrowing left, p the settlement
\* of l's own promise. Each notified follower's promise takes its continuation's
\* outcome; the leader's caller is resumed by a reaction job queued after
\* the followers' continuations were settled, and ahead of theirs, which
\* pass through one more job.
Settle(l, op, r, p) ==
    LET h == r.heap
        woken == Notified(h, SubSeq(h.log, Len(resumeLog) + 1, Len(h.log)))
        isWoken(c) == \E i \in DOMAIN woken : woken[i] = c
    IN /\ conts' = h.conts
       /\ errors' = h.errors
       /\ resumeLog' = h.log
       /\ continuationQueue' = r.queue
       /\ calls' = [c \in DOMAIN calls |->
                       IF c = l
                       THEN [calls[c] EXCEPT !.pc = "settled", !.op = op,
                                             !.promise = p]
                       ELSE IF isWoken(c)
                       THEN [calls[c] EXCEPT
                                !.pc = "settled",
                                !.promise = Outcome(h.conts[calls[c].cont])]
                       ELSE calls[c]]
       /\ microtasks' = microtasks \o <<l>> \o woken
       /\ segment' = "leader"
       /\ UNCHANGED invocations
       /\ UNCHANGED <<observationVars, decoratorVars, pairVars>>

\* A request() whose lock is released once the fetch has completed, before
\* the payload is decoded.
FetchResolvedReleasesLock(l) ==
    /\ microtasks = <<>>
    /\ l \in DOMAIN calls
    /\ calls[l].role = "leader" /\ calls[l].pc = "fetching"
    /\ calls' = [calls EXCEPT ![l].pc = "decoding"]
    /\ lock' = FALSE
    /\ segment' = "leader"
    /\ UNCHANGED <<continuationQueue, conts, errors, microtasks,
                   invocations, resumeLog>>
    /\ UNCHANGED <<observationVars, decoratorVars, pairVars>>

\* `await someFetchRequest()` yields a Response: line 94, then line 95 up to
\* `await result.json()`.
FetchResolved(l) ==
    /\ microtasks = <<>>
    /\ l \in DOMAIN calls
    /\ calls[l].role = "leader" /\ calls[l].pc = "fetching"
    /\ calls' = [calls EXCEPT ![l].pc = "decoding"]
    /\ segment' = "leader"
    /\ UNCHANGED <<lock, continuationQueue, conts, errors, microtasks,
                   invocations, resumeLog>>
    /\ UNCHANGED <<observationVars, decoratorVars, pairVars>>

\* request() releasing the lock in the catch block only, not in `finally`.
requestReturnsKeepsLock(l, payload) ==
    /\ Settle(l, Returned(payload),
              resumeByReturning(Heap, continuationQueue, payload),
              PromiseResolve(Pending, payload))
    /\ lock' = lock

\* The try block once the payload is decoded (lines 96-97), then `finally`.
requestReturns(l, payload) ==
    /\ Settle(l, Returned(payload),
              resumeByReturning(Heap, continuationQueue, payload),
              PromiseResolve(Pending, payload))
    /\ lock' = FALSE

\* The catch block without line 100's `throw e`: the call returns undefined.
requestThrowsSwallowed(l, h, e, m) ==
    /\ Settle(l, Threw(e, m), resumeByThrowing(h, continuationQueue, e),
              PromiseResolve(Pending, "none"))
    /\ lock' = FALSE

\* request() releasing the lock at the end of the try block only, not in
\* `finally`.
requestThrowsKeepsLock(l, h, e, m) ==
    /\ Settle(l, Threw(e, m), resumeByThrowing(h, continuationQueue, e),
              PromiseReject(Pending, e))
    /\ lock' = lock

\* The catch block (lines 98-100), then `finally`. e is the error caught, m
\* the message it was thrown with, h the heap that holds it.
requestThrows(l, h, e, m) ==
    /\ Settle(l, Threw(e, m), resumeByThrowing(h, continuationQueue, e),
              PromiseReject(Pending, e))
    /\ lock' = FALSE

\* The heap with a new Error of message m thrown from `origin`.
Thrown(m, origin) ==
    [Heap EXCEPT !.errors = Append(@, [message |-> m, stack |-> <<m, origin>>])]

\* `await result.json()` yields the payload.
DecodeResolved(l, payload) ==
    /\ microtasks = <<>>
    /\ l \in DOMAIN calls
    /\ calls[l].role = "leader" /\ calls[l].pc = "decoding"
    /\ requestReturns(l, payload)

\* `await someFetchRequest()` throws.
FetchRejected(l, m) ==
    /\ microtasks = <<>>
    /\ l \in DOMAIN calls
    /\ calls[l].role = "leader" /\ calls[l].pc = "fetching"
    /\ requestThrows(l, Thrown(m, "fetch"), Len(errors) + 1, m)

\* `await result.json()` throws.
DecodeRejected(l, m) ==
    /\ microtasks = <<>>
    /\ l \in DOMAIN calls
    /\ calls[l].role = "leader" /\ calls[l].pc = "decoding"
    /\ requestThrows(l, Thrown(m, "json"), Len(errors) + 1, m)

\* The next reaction job: the caller's `await coalescer.request()` resumes
\* with the outcome of the call's promise.
Wake ==
    /\ microtasks # <<>>
    /\ calls' = [calls EXCEPT ![Head(microtasks)].pc = "observed"]
    /\ microtasks' = Tail(microtasks)
    /\ segment' = "caller"
    /\ UNCHANGED <<lock, continuationQueue, conts, errors, invocations,
                   resumeLog>>
    /\ UNCHANGED <<observationVars, decoratorVars, pairVars>>

Next ==
    \/ RequestAsFollower
    \/ RequestAsLeader
    \/ \E l \in 1..MaxCalls : FetchResolved(l)
    \/ \E l \in 1..MaxCalls, m \in Messages : FetchRejected(l, m)
    \/ \E l \in 1..MaxCalls, p \in Payloads : DecodeResolved(l, p)
    \/ \E l \in 1..MaxCalls, m \in Messages : DecodeRejected(l, m)
    \/ Wake

Spec == Init /\ [][Next]_vars

\* The event loop runs every queued job, and every operation ends.
FairSpec ==
    /\ Spec
    /\ WF_vars(Wake)
    /\ WF_vars(\E l \in 1..MaxCalls : FetchResolved(l))
    /\ WF_vars(\E l \in 1..MaxCalls, m \in Messages : FetchRejected(l, m))
    /\ WF_vars(\E l \in 1..MaxCalls, p \in Payloads : DecodeResolved(l, p))
    /\ WF_vars(\E l \in 1..MaxCalls, m \in Messages : DecodeRejected(l, m))

----------------------------------------------------------------------------
(* Properties of the coalescer *)

\* The calls that are leaders, and the followers of leader l.
Leaders == {c \in DOMAIN calls : calls[c].role = "leader"}
Followers(l) ==
    {c \in DOMAIN calls : calls[c].role = "follower" /\ calls[c].leader = l}

\* C1. At most one leader: while the operation of a call l is executing,
\* every call that arrived after l is a follower of l, suspended on a
\* continuation that is in the queue, the queue holds exactly these
\* continuations, and the operation has been invoked once for l and once
\* for each leader before l, never for a call after l.
C1_AtMostOneLeader ==
    \A l \in InFlight :
        /\ \A c \in (l + 1)..Len(calls) :
               /\ calls[c].role = "follower"
               /\ calls[c].pc = "suspended"
               /\ calls[c].promise.state = "pending"
               /\ \E i \in DOMAIN continuationQueue :
                      continuationQueue[i] = calls[c].cont
        /\ Len(continuationQueue) = Len(calls) - l
        /\ invocations = Cardinality({c \in 1..l : calls[c].role = "leader"})

\* Three calls arrived before the first one's operation completed.
C1_Witness ==
    \E l \in InFlight : Len(calls) >= l + 2 /\ invocations = 1

\* C2. Shared outcome on success: once the operation of leader l has
\* returned payload p, the promise of l and the promise of every follower
\* of l are resolved with p, and the continuations of the followers hold p.
C2_SharedOutcomeOnSuccess ==
    \A l \in Leaders :
        calls[l].op.state = "returned" =>
            \A c \in Followers(l) \cup {l} :
                /\ calls[c].promise = PromiseResolve(Pending, calls[l].op.value)
                /\ c # l => conts[calls[c].cont].value = calls[l].op.value

\* A leader and two followers have all observed the payload.
C2_Witness ==
    \E l \in Leaders :
        /\ calls[l].op.state = "returned"
        /\ Cardinality(Followers(l)) >= 2
        /\ \A c \in Followers(l) \cup {l} : calls[c].pc = "observed"

\* C3. Shared outcome on failure: once the operation of leader l has thrown
\* error e with message m, the promise of l is rejected with e itself, the
\* promise of every follower of l is rejected with an error whose message
\* is m, and none of these promises is resolved.
C3_SharedOutcomeOnFailure ==
    \A l \in Leaders :
        calls[l].op.state = "threw" =>
            /\ calls[l].promise = PromiseReject(Pending, calls[l].op.error)
            /\ \A c \in Followers(l) \cup {l} :
                   /\ calls[c].promise.state = "rejected"
                   /\ errors[calls[c].promise.error].message
                          = calls[l].op.message

\* A leader and two followers have all observed the failure.
C3_Witness ==
    \E l \in Leaders :
        /\ calls[l].op.state = "threw"
        /\ Cardinality(Followers(l)) >= 2
        /\ \A c \in Followers(l) \cup {l} : calls[c].pc = "observed"

\* The leader that arrived last (0: no call was a leader yet), and the
\* steps in which a new call arrives or the operation of call l ends.
LastLeader ==
    IF Leaders = {} THEN 0
    ELSE CHOOSE l \in Leaders : \A c \in Leaders : c <= l
Arrives == Len(calls') = Len(calls) + 1
Completes(l) ==
    /\ l \in DOMAIN calls
    /\ calls[l].op.state = "running"
    /\ calls'[l].op.state \in {"returned", "threw"}

\* C4. At most one underlying operation is in flight in every state, and
\* the operation is invoked exactly when the lock goes from false to true:
\* once per generation, by no follower, and not again when it fails.
C4_OneOperationPerGeneration ==
    /\ [](Cardinality(InFlight) <= 1)
    /\ [][/\ invocations' \in {invocations, invocations + 1}
          /\ (invocations' = invocations + 1) <=> (~lock /\ lock')]_vars

\* Two generations are over, one failed and one succeeded, followers in both.
C4_Witness ==
    \E l1, l2 \in Leaders :
        /\ calls[l1].op.state = "threw" /\ Followers(l1) # {}
        /\ calls[l2].op.state = "returned" /\ Followers(l2) # {}
        /\ invocations = 2

\* C5. Busy release on failure: once the operation of the last leader has
\* failed, the lock is false, and a request() call that arrives then is a
\* leader that invokes the operation again.
C5_BusyReleaseOnFailure ==
    [][(LastLeader # 0 /\ calls[LastLeader].op.state = "threw") =>
          /\ ~lock
          /\ Arrives =>
                 /\ calls'[Len(calls')].role = "leader"
                 /\ calls'[Len(calls')].op.state = "running"
                 /\ invocations' = invocations + 1]_vars

\* A call that arrived after a failed generation with a follower is the
\* leader of the next one.
C5_Witness ==
    \E l1, l2 \in Leaders :
        /\ l1 < l2
        /\ calls[l1].op.state = "threw" /\ Followers(l1) # {}
        /\ calls[l2].op.state = "running"

\* C6. Queue drain and fresh leader: once the last leader has settled, by
\* success or by failure, the queue is empty, and a request() call that
\* arrives then is a leader with a pending promise that invokes the
\* operation again.
C6_QueueDrainFreshLeader ==
    [][(LastLeader # 0 /\ calls[LastLeader].op.state # "running") =>
          /\ continuationQueue = <<>>
          /\ Arrives =>
                 /\ calls'[Len(calls')].role = "leader"
                 /\ calls'[Len(calls')].promise = Pending
                 /\ calls'[Len(calls')].op.state = "running"
                 /\ invocations' = invocations + 1]_vars

\* Two strictly sequential calls: the first succeeded with no follower, the
\* second has observed its own result, and the operation ran twice.
C6_Witness ==
    /\ Len(calls) = 2
    /\ calls[1].op.state = "returned" /\ calls[2].op.state = "returned"
    /\ calls[2].pc = "observed"
    /\ invocations = 2

\* C7. The step in which the operation of leader l ends resumes every
\* continuation of the queue exactly once, each pending until then and
\* never resumed before, each with the outcome of l's own promise; it
\* leaves the queue empty and no continuation pending. No other step
\* resumes a continuation or takes one out of the queue.
C7_ResumeAllOnce ==
    [][LET n == Len(resumeLog)
           new == SubSeq(resumeLog', n + 1, Len(resumeLog'))
       IN /\ \A l \in DOMAIN calls : Completes(l) =>
                 /\ continuationQueue' = <<>>
                 /\ Len(new) = Len(continuationQueue)
                 /\ \A i \in DOMAIN continuationQueue :
                        \E j \in DOMAIN new :
                            new[j].cont = continuationQueue[i]
                 /\ \A j \in DOMAIN new :
                        /\ \A i \in DOMAIN resumeLog' :
                               resumeLog'[i].cont = new[j].cont => i = n + j
                        /\ conts[new[j].cont].state = "pending"
                        /\ Outcome(new[j]) = calls'[l].promise
                        /\ Outcome(conts'[new[j].cont]) = calls'[l].promise
                 /\ \A k \in DOMAIN conts' : conts'[k].state # "pending"
          /\ (\A l \in DOMAIN calls : ~Completes(l)) =>
                 /\ resumeLog' = resumeLog
                 /\ \A i \in DOMAIN continuationQueue :
                        /\ i \in DOMAIN continuationQueue'
                        /\ continuationQueue'[i] = continuationQueue[i]
                        /\ conts'[continuationQueue[i]].state = "pending"]_vars

\* A leader that failed has resumed three followers with the one error.
C7_Witness ==
    /\ continuationQueue = <<>>
    /\ \E i, j, k \in DOMAIN resumeLog :
           /\ i < j /\ j < k
           /\ resumeLog[i].state = "rejected"
           /\ resumeLog[j].error = resumeLog[i].error
           /\ resumeLog[k].error = resumeLog[i].error

\* C8. The lock is true exactly while the operation of a leader is
\* executing, and the queue is non-empty only while the lock is true.
C8_LockIffLeaderRunning ==
    /\ lock <=> InFlight # {}
    /\ continuationQueue # <<>> => lock

\* A second generation is in flight with a follower queued, the first over.
C8_Witness ==
    /\ lock
    /\ continuationQueue # <<>>
    /\ \E l \in Leaders : calls[l].op.state # "running" /\ calls[l].pc = "observed"

\* C9. Liveness: when every operation ends and every queued job runs, every
\* request() call, leader or follower, in any generation, is eventually
\* settled and its caller resumed, and a taken lock is eventually free.
\* A settled call stays settled and the calls of a behaviour are finitely
\* many, so this is: from some point on, every call made is settled and
\* observed and the lock is free.
C9_EveryCallSettles ==
    <>[](/\ ~lock
         /\ \A c \in DOMAIN calls :
                /\ calls[c].promise.state # "pending"
                /\ calls[c].pc = "observed")

\* A follower of a generation that began after a failed one has been
\* resumed.
C9_Witness ==
    \E l1, l2 \in Leaders :
        /\ l1 < l2
        /\ calls[l1].op.state = "threw"
        /\ \E c \in Followers(l2) : calls[c].pc = "observed"

\* C10. FIFO notification: the queue holds the continuations in the order
\* in which their request() calls arrived, and continuations are resumed in
\* that order.
C10_FifoNotification ==
    /\ \A i, j \in DOMAIN continuationQueue :
           i < j => CallOf(continuationQueue[i]) < CallOf(continuationQueue[j])
    /\ \A i, j \in DOMAIN resumeLog :
           i < j => CallOf(resumeLog[i].cont) < CallOf(resumeLog[j].cont)

\* Followers A, B and C of one leader have been resumed, A first, C last.
C10_Witness ==
    \E i \in DOMAIN resumeLog :
        /\ i + 2 \in DOMAIN resumeLog
        /\ \E l \in Leaders :
               \A j \in i..(i + 2) : CallOf(resumeLog[j].cont) \in Followers(l)

----------------------------------------------------------------------------
(* class Continuation on its own: code that creates continuations, resumes  *)
(* them, more than once too, and awaits them.                               *)

\* Bounds on the continuations created, the resumeBy* calls made and the
\* awaits started.
MaxConts == 2
MaxResumes == 2
MaxAwaiters == 2

\* The Error objects the resuming code holds: new Error(m), whose stack is
\* the line of the message and the frame that created it.
ErrorPool ==
    <<[message |-> "boom", stack |-> <<"boom", "origin">>],
      [message |-> "bang", stack |-> <<"bang", "origin">>]>>

ContInit ==
    /\ lock = FALSE
    /\ continuationQueue = <<>>
    /\ conts = <<>>
    /\ errors = ErrorPool
    /\ calls = <<>>
    /\ microtasks = <<>>
    /\ segment = "caller"
    /\ invocations = 0
    /\ resumeLog = <<>>
    /\ ObservationStart
    /\ DecoratorStart
    /\ PairStart

\* new Continuation(), by creation site number Len(conts) + 1.
ContCreate ==
    /\ Len(conts) < MaxConts
    /\ conts' = Append(conts, NewContinuation(Len(conts) + 1))
    /\ UNCHANGED <<lock, continuationQueue, errors, calls, microtasks,
                   segment, invocations, resumeLog>>
    /\ UNCHANGED <<observationVars, decoratorVars, pairVars>>

\* The awaits of continuation k that are suspended.
Suspended(k) ==
    {c \in DOMAIN calls : calls[c].cont = k /\ calls[c].pc = "suspended"}

\* The suspended awaits of k in the order they began: the order of their
\* reactions on the promise.
RECURSIVE InOrder(_, _)
InOrder(S, n) ==
    IF n > Len(calls) THEN <<>>
    ELSE (IF n \in S THEN <<n>> ELSE <<>>) \o InOrder(S, n + 1)

\* The heap h is what a resume call on continuation k left: if the call
\* settled k, every await suspended on k gets k's outcome and a reaction
\* job; if k was settled before, no await is touched.
Resumed(h, k) ==
    LET settles == conts[k].state = "pending" /\ h.conts[k].state # "pending"
    IN /\ conts' = h.conts
       /\ errors' = h.errors
       /\ resumeLog' = h.log
       /\ calls' = [c \in DOMAIN calls |->
                       IF settles /\ c \in Suspended(k)
                       THEN [calls[c] EXCEPT !.pc = "settled",
                                             !.promise = Outcome(h.conts[k])]
                       ELSE calls[c]]
       /\ microtasks' = IF settles
                        THEN microtasks \o InOrder(Suspended(k), 1)
                        ELSE microtasks
       /\ UNCHANGED <<lock, continuationQueue, segment, invocations>>
       /\ UNCHANGED <<observationVars, decoratorVars, pairVars>>

\* cont.resumeByReturning(value), on a pending or a settled continuation.
ContResumeByReturning(k, value) ==
    /\ Len(resumeLog) < MaxResumes
    /\ k \in DOMAIN conts
    /\ Resumed(ContinuationResumeByReturning(Heap, k, value), k)

\* cont.resumeByThrowing(error), on a pending or a settled continuation.
ContResumeByThrowing(k, e) ==
    /\ Len(resumeLog) < MaxResumes
    /\ k \in DOMAIN conts
    /\ Resumed(ContinuationResumeByThrowing(Heap, k, e), k)

\* `await cont`: the code suspends, or, when k is settled already, gets a
\* reaction job at once.
ContAwait(k) ==
    /\ Len(calls) < MaxAwaiters
    /\ k \in DOMAIN conts
    /\ LET c == Len(calls) + 1
           settled == conts[k].state # "pending"
       IN /\ calls' = Append(calls,
                  [role |-> "awaiter",
                   pc |-> IF settled THEN "settled" ELSE "suspended",
                   cont |-> k, leader |-> 0, op |-> NoOperation,
                   promise |-> Outcome(conts[k])])
          /\ microtasks' = IF settled THEN Append(microtasks, c)
                           ELSE microtasks
    /\ UNCHANGED <<lock, continuationQueue, conts, errors, segment,
                   invocations, resumeLog>>
    /\ UNCHANGED <<observationVars, decoratorVars, pairVars>>

ContNext ==
    \/ ContCreate
    \/ \E k \in 1..MaxConts, v \in Payloads : ContResumeByReturning(k, v)
    \/ \E k \in 1..MaxConts, e \in DOMAIN ErrorPool :
           ContResumeByThrowing(k, e)
    \/ \E k \in 1..MaxConts : ContAwait(k)
    \/ Wake

ContSpec == ContInit /\ [][ContNext]_vars

\* The resumeBy* calls made on continuation k, as places of the log, and
\* the first of them.
ResumesOf(k) == {i \in DOMAIN resumeLog : resumeLog[i].cont = k}
FirstResume(k) ==
    resumeLog[CHOOSE i \in ResumesOf(k) : \A j \in ResumesOf(k) : i <= j]

\* The awaits of continuation k whose code has been resumed.
Observers(k) ==
    {c \in DOMAIN calls : calls[c].cont = k /\ calls[c].pc = "observed"}

\* C11. Idempotent resumption: when resumeByReturning was called on a
\* continuation and called again later, the continuation holds the value of
\* the first call, and every await of it that has resumed, before the
\* second call or after it, received that value.
C11_IdempotentResumption ==
    \A k \in DOMAIN conts :
        \A i, j \in ResumesOf(k) :
            (/\ i < j
             /\ \A n \in ResumesOf(k) : i <= n
             /\ resumeLog[i].state = "resolved"
             /\ resumeLog[j].state = "resolved") =>
                /\ Outcome(conts[k]) = Outcome(resumeLog[i])
                /\ \A c \in Observers(k) :
                       calls[c].promise = Outcome(resumeLog[i])

\* resumeByReturning(v1) then resumeByReturning(v2), v2 # v1, on one
\* continuation, and two awaits of it have resumed.
C11_Witness ==
    \E k \in DOMAIN conts :
        /\ \E i, j \in ResumesOf(k) :
               /\ i < j
               /\ resumeLog[i].state = "resolved"
               /\ resumeLog[j].state = "resolved"
               /\ resumeLog[i].value # resumeLog[j].value
        /\ Cardinality(Observers(k)) = 2

\* C12. Double settlement is a silent no-op: a resumeByReturning or
\* resumeByThrowing call on a continuation that is settled changes neither
\* that continuation nor any other object: not the other continuations,
\* not the Error objects, not the awaits and their jobs.
C12_DoubleSettlementNoOp ==
    [][(/\ Len(resumeLog') = Len(resumeLog) + 1
        /\ conts[resumeLog'[Len(resumeLog')].cont].state # "pending") =>
           /\ conts' = conts
           /\ errors' = errors
           /\ calls' = calls
           /\ microtasks' = microtasks]_vars

\* The resumeByThrowing calls that were given Error object e, and the
\* continuation of the last of them.
ThrowsOf(e) ==
    {i \in DOMAIN resumeLog :
        resumeLog[i].state = "rejected" /\ resumeLog[i].error = e}
LastThrownInto(e) ==
    resumeLog[CHOOSE i \in ThrowsOf(e) : \A j \in ThrowsOf(e) : j <= i].cont

\* s is the beginning of t; s is the end of t.
IsPrefix(s, t) == Len(s) <= Len(t) /\ SubSeq(t, 1, Len(s)) = s
IsSuffix(s, t) ==
    Len(s) <= Len(t) /\ SubSeq(t, Len(t) - Len(s) + 1, Len(t)) = s

Jobs(c) == {i \in DOMAIN microtasks : microtasks[i] = c}

\* C17. A continuation is awaitable and single-assignment: it is pending
\* until the first resume call and holds the outcome of that call from
\* then on; an await of a pending continuation is suspended with no job;
\* an await of a settled one, begun before or after the settlement, has
\* that outcome and either one job waiting or has been resumed, never both.
C17_AwaitableSingleAssignment ==
    \A k \in DOMAIN conts :
        IF ResumesOf(k) = {}
        THEN /\ conts[k].state = "pending"
             /\ \A c \in DOMAIN calls : calls[c].cont = k =>
                    /\ calls[c].pc = "suspended"
                    /\ calls[c].promise = Pending
                    /\ Jobs(c) = {}
        ELSE /\ Outcome(conts[k]) = Outcome(FirstResume(k))
             /\ \A c \in DOMAIN calls : calls[c].cont = k =>
                    /\ calls[c].promise = Outcome(FirstResume(k))
                    /\ \/ calls[c].pc = "settled" /\ Cardinality(Jobs(c)) = 1
                       \/ calls[c].pc = "observed" /\ Jobs(c) = {}

\* A continuation rejected and then resumed again, with one await begun
\* before the settlement and one after it, both resumed.
C17_Witness ==
    \E k \in DOMAIN conts :
        /\ Cardinality(ResumesOf(k)) = 2
        /\ FirstResume(k).state = "rejected"
        /\ Observers(k) = {1, 2}
        /\ microtasks = <<>>

----------------------------------------------------------------------------
(* Followers and the error they receive *)

\* C15. When the operation fails with followers queued, the error a
\* follower's request() rejects with carries the creation stack of that
\* follower's own continuation.
C15_OwnCreationTrace ==
    \A c \in DOMAIN calls :
        (/\ calls[c].role = "follower"
         /\ calls[c].pc = "observed"
         /\ calls[c].promise.state = "rejected") =>
            IsSuffix(conts[calls[c].cont].initialCallStack,
                     errors[calls[c].promise.error].stack)

----------------------------------------------------------------------------
(* The coalescer with its whole public interface: request(), and          *)
(* resumeByReturning() and resumeByThrowing() called by code that holds    *)
(* the coalescer.                                                          *)

\* What a call of a public resume method from outside request() leaves: r is
\* the result of the method. The lock and the leader are not touched.
ExternalResumed(r) ==
    LET h == r.heap
        woken == Notified(h, SubSeq(h.log, Len(resumeLog) + 1, Len(h.log)))
        isWoken(c) == \E i \in DOMAIN woken : woken[i] = c
    IN /\ conts' = h.conts
       /\ errors' = h.errors
       /\ resumeLog' = h.log
       /\ continuationQueue' = r.queue
       /\ calls' = [c \in DOMAIN calls |->
                       IF isWoken(c)
                       THEN [calls[c] EXCEPT
                                !.pc = "settled",
                                !.promise = Outcome(h.conts[calls[c].cont])]
                       ELSE calls[c]]
       /\ microtasks' = microtasks \o woken
       /\ segment' = "caller"
       /\ UNCHANGED <<lock, invocations>>
       /\ UNCHANGED <<observationVars, decoratorVars, pairVars>>

\* coalescer.resumeByReturning(result) called by a caller. With an empty
\* queue the call changes nothing.
ExternalResumeByReturning(result) ==
    /\ CallerRuns
    /\ continuationQueue # <<>>
    /\ ExternalResumed(resumeByReturning(Heap, continuationQueue, result))

\* coalescer.resumeByThrowing(new Error(m)) called by a caller. With an
\* empty queue the call changes nothing of the coalescer.
ExternalResumeByThrowing(m) ==
    /\ CallerRuns
    /\ continuationQueue # <<>>
    /\ ExternalResumed(resumeByThrowing(Thrown(m, "caller"),
                                        continuationQueue, Len(errors) + 1))

ApiNext ==
    \/ Next
    \/ \E p \in Payloads : ExternalResumeByReturning(p)
    \/ \E m \in Messages : ExternalResumeByThrowing(m)

ApiSpec == Init /\ [][ApiNext]_vars

\* C13. The continuation of a follower is settled, and leaves the queue,
\* only in the step in which the operation of its leader ends: no other
\* step settles a pending continuation or takes it out of the queue.
C13_SettledOnlyByLeader ==
    [][\A k \in DOMAIN conts :
          (/\ conts[k].state = "pending"
           /\ \/ conts'[k].state # "pending"
              \/ /\ \E i \in DOMAIN continuationQueue :
                        continuationQueue[i] = k
                 /\ \A i \in DOMAIN continuationQueue' :
                        continuationQueue'[i] # k) =>
              Completes(calls[CallOf(k)].leader)]_vars

----------------------------------------------------------------------------
(* request() run by preemptive threads: a thread may be suspended between  *)
(* the check of line 91 and the assignment of line 92, and the steps of    *)
(* other callers run in between.                                           *)

\* How many calls are suspended between check and set in one run.
MaxPreempted == 1

\* The calls that were suspended between their check and their set.
Preempted == {c \in DOMAIN calls : "raced" \in DOMAIN calls[c]}

\* Line 91 by a thread that finds the lock free and is suspended before
\* line 92.
RequestCheck ==
    /\ Len(calls) < MaxCalls
    /\ Cardinality(Preempted) < MaxPreempted
    /\ ~lock
    /\ calls' = Append(calls, [role |-> "leader", pc |-> "checked",
                               cont |-> 0, leader |-> Len(calls) + 1,
                               op |-> NoOperation, promise |-> Pending,
                               raced |-> FALSE])
    /\ UNCHANGED <<lock, continuationQueue, conts, errors, microtasks,
                   segment, invocations, resumeLog>>
    /\ UNCHANGED <<observationVars, decoratorVars, pairVars>>

\* Lines 92-94 by the thread of call c when it runs again: it sets the
\* lock without looking at it. raced records whether the lock was taken
\* since the check, which only a step of another caller can have done.
RequestSet(c) ==
    /\ calls[c].pc = "checked"
    /\ lock' = TRUE
    /\ invocations' = invocations + 1
    /\ calls' = [calls EXCEPT ![c].pc = "fetching",
                              ![c].op = Running,
                              ![c].raced = lock]
    /\ UNCHANGED <<continuationQueue, conts, errors, microtasks, segment,
                   resumeLog>>
    /\ UNCHANGED <<observationVars, decoratorVars, pairVars>>

\* The steps of Next, with the failure of the operation taken at the fetch:
\* a failure of the decode runs the same catch and finally (requestThrows).
ThreadedNext ==
    \/ RequestAsFollower
    \/ RequestAsLeader
    \/ \E l \in 1..MaxCalls : FetchResolved(l)
    \/ \E l \in 1..MaxCalls, m \in Messages : FetchRejected(l, m)
    \/ \E l \in 1..MaxCalls, p \in Payloads : DecodeResolved(l, p)
    \/ Wake
    \/ RequestCheck
    \/ \E c \in DOMAIN calls : RequestSet(c)

ThreadedSpec == Init /\ [][ThreadedNext]_vars

\* Call c set the lock after another caller had taken it between c's check
\* and c's set.
Raced(c) == c \in Preempted /\ calls[c].raced

\* C16. Two leaders run the operation at the same time only if some call
\* had the step of another caller run between its check of the lock and
\* its set of the lock; calls that check and set in one step never
\* produce two leaders by themselves.
C16_TwoLeadersOnlyByRace ==
    Cardinality(InFlight) >= 2 => \E c \in DOMAIN calls : Raced(c)

\* With a step between check and set, two leaders in flight are reached.
C16_Witness ==
    \E a, b \in InFlight : a # b /\ Raced(b) /\ ~Raced(a)

----------------------------------------------------------------------------
(* Observation: src/unnamed/part_004. A registrar per @Observable object, *)
(* the access list that withObservationTracking fills while apply runs,   *)
(* and the property getters and setters that @Observable installs.        *)

\* Bound on the steps made by the code that uses the objects: calls of
\* withObservationTracking, returns of apply, property reads and writes.
MaxEvents == 6

\* One more step of that code.
Event == events < MaxEvents /\ events' = events + 1

\* What a property setter works on.
ObsHeap ==
    [registrars |-> registrars, changes |-> changes, uncaught |-> uncaught]

\* A Set<ObservationID> is kept in insertion order: add and delete.
SetAdd(q, id) ==
    IF \E i \in DOMAIN q : q[i] = id THEN q ELSE Append(q, id)
SetDelete(q, id) == SelectSeq(q, LAMBDA x : x # id)
SetHas(q, id) == \E i \in DOMAIN q : q[i] = id

\* ObservationRegistrar.registerOnChange with every key path as key.
RegistrarRegisterOnChangeEveryKey(r, id, keyPaths, closure) ==
    [lookups |-> [k \in KeyPaths |->
                     IF k \in DOMAIN r.lookups
                     THEN SetAdd(r.lookups[k], id) ELSE <<id>>],
     observations |-> [i \in DOMAIN r.observations \cup {id} |->
                          IF i = id
                          THEN [id |-> id, keyPaths |-> keyPaths,
                                closure |-> closure]
                          ELSE r.observations[i]]]

\* ObservationRegistrar.registerOnChange, lines 73-83, on registrar r; id is
\* the UUID of the new Observation, closure the tracking whose processThunk
\* it holds.
RegistrarRegisterOnChange(r, id, keyPaths, closure) ==
    [lookups |-> [k \in DOMAIN r.lookups \cup keyPaths |->
                     IF k \in keyPaths
                     THEN IF k \in DOMAIN r.lookups
                          THEN SetAdd(r.lookups[k], id) ELSE <<id>>
                     ELSE r.lookups[k]],
     observations |-> [i \in DOMAIN r.observations \cup {id} |->
                          IF i = id
                          THEN [id |-> id, keyPaths |-> keyPaths,
                                closure |-> closure]
                          ELSE r.observations[i]]]

\* ObservationRegistrar.cancel, lines 62-71, on registrar r. Line 66 throws
\* a TypeError when a key path of the observation has no lookup set; an
\* observation holds one key path (trackAccess makes an Entry per access),
\* so nothing was changed before the throw.
RegistrarCancel(r, id) ==
    IF id \notin DOMAIN r.observations
    THEN [registrar |-> r, threw |-> FALSE]
    ELSE LET keyPaths == r.observations[id].keyPaths
             left(k) == SetDelete(r.lookups[k], id)
             kept == {k \in DOMAIN r.lookups :
                         ~(k \in keyPaths /\ left(k) = <<>>)}
         IN IF keyPaths \ DOMAIN r.lookups # {}
            THEN [registrar |-> r, threw |-> TRUE]
            ELSE [registrar |->
                     [lookups |-> [k \in kept |->
                                      IF k \in keyPaths THEN left(k)
                                      ELSE r.lookups[k]],
                      observations |->
                          [i \in DOMAIN r.observations \ {id} |->
                              r.observations[i]]],
                  threw |-> FALSE]

\* The registrar of the entry of access list g that has the given id.
EntryRegistrar(g, id) ==
    LET entries == accessLists[g].entries
    IN entries[CHOOSE i \in DOMAIN entries : entries[i].id = id].registrar

\* Lines 106-110: the loop of processThunk over observationIds.
RECURSIVE CancelEach(_, _, _)
CancelEach(h, g, ids) ==
    IF ids = <<>> \/ h.uncaught THEN h
    ELSE LET o == EntryRegistrar(g, Head(ids).entry)
             c == RegistrarCancel(h.registrars[o], Head(ids).observation)
         IN CancelEach([h EXCEPT !.registrars[o] = c.registrar,
                                 !.uncaught = c.threw],
                       g, Tail(ids))

\* processThunk without its loop of cancels: onChange only.
processThunkWithoutCancel(h, t, o, k) ==
    [h EXCEPT !.changes =
        Append(@, [tracking |-> t, object |-> o, keyPath |-> k,
                   seen |-> store[o][k]])]

\* processThunk of tracking t, lines 104-111, run by a write of key path k
\* of object o: onChange, which sees the stored value, then the cancels.
processThunk(h, t, o, k) ==
    CancelEach([h EXCEPT !.changes =
                   Append(@, [tracking |-> t, object |-> o, keyPath |-> k,
                              seen |-> store[o][k]])],
               trackings[t].list, trackings[t].observationIds)

\* Lines 44-53: the loop of withMutation over the Set found under keyPath.
\* An id deleted from the Set before the loop reaches it is not visited;
\* a Set whose key was deleted from lookups is empty.
RECURSIVE NotifyEach(_, _, _, _)
NotifyEach(h, o, k, ids) ==
    IF ids = <<>> \/ h.uncaught THEN h
    ELSE LET id == Head(ids)
             r == h.registrars[o]
             visited == k \in DOMAIN r.lookups /\ SetHas(r.lookups[k], id)
         IN IF ~visited \/ id \notin DOMAIN r.observations
            THEN NotifyEach(h, o, k, Tail(ids))
            ELSE LET observation == r.observations[id]
                     h1 == processThunk(h, observation.closure, o, k)
                     r1 == h1.registrars[o]
                     h2 == [h1 EXCEPT !.registrars[o].lookups =
                               [kp \in DOMAIN r1.lookups |->
                                   IF kp \in observation.keyPaths
                                   THEN SetDelete(r1.lookups[kp], id)
                                   ELSE r1.lookups[kp]]]
                 IN NotifyEach(IF h1.uncaught THEN h1 ELSE h2,
                               o, k, Tail(ids))

\* ObservationRegistrar.withMutation up to mutate(), lines 42-54, on the
\* registrar of object o.
withMutation(h, o, k) ==
    IF k \in DOMAIN h.registrars[o].lookups
    THEN NotifyEach(h, o, k, h.registrars[o].lookups[k])
    ELSE h

\* AccessList.trackAccess, lines 96-100, on access list g: a new UUID, so a
\* new Entry, for every access.
trackAccess(g, o, k) ==
    [accessLists EXCEPT ![g].entries =
        Append(@, [id |-> uuids + 1, registrar |-> o, keyPaths |-> {k}])]

\* AccessList.registerOnChange, lines 112-117: the loop over the entries of
\* access list g, registering processThunk of tracking t. It yields the
\* registrars and observationIds.
RECURSIVE RegisterEach(_, _, _, _)
RegisterEach(rs, ids, entries, t) ==
    IF entries = <<>> THEN [registrars |-> rs, observationIds |-> ids]
    ELSE LET entry == Head(entries)
             id == uuids + Len(ids) + 1
         IN RegisterEach(
                [rs EXCEPT ![entry.registrar] =
                    RegistrarRegisterOnChange(@, id, entry.keyPaths, t)],
                Append(ids, [entry |-> entry.id, observation |-> id]),
                Tail(entries), t)

\* withObservationTracking, line 121, and the call of apply: line 122.
WithObservationTrackingBegin ==
    /\ ~uncaught
    /\ Event
    /\ accessLists' = Append(accessLists, [entries |-> <<>>])
    /\ GLOBAL_ACCESS_LIST' = Len(accessLists) + 1
    /\ trackings' = Append(trackings,
                           [reads |-> {}, written |-> {}, ended |-> FALSE,
                            list |-> 0, observationIds |-> <<>>])
    /\ applying' = Append(applying, Len(trackings) + 1)
    /\ UNCHANGED <<registrars, store, changes, uuids, uncaught>>
    /\ UNCHANGED <<coalescerVars, decoratorVars, pairVars>>

\* The getter of property k of object o, lines 161-164: access, line 32,
\* then trackAccess on the access list that is global now. reads records
\* what each running apply has read.
Read(o, k) ==
    /\ ~uncaught
    /\ GLOBAL_ACCESS_LIST # 0
    /\ Event
    /\ accessLists' = trackAccess(GLOBAL_ACCESS_LIST, o, k)
    /\ uuids' = uuids + 1
    /\ trackings' = [t \in DOMAIN trackings |->
                        IF \E i \in DOMAIN applying : applying[i] = t
                        THEN [trackings[t] EXCEPT
                                 !.reads = @ \cup {<<o, k>>}]
                        ELSE trackings[t]]
    /\ UNCHANGED <<GLOBAL_ACCESS_LIST, registrars, store, applying, changes,
                   uncaught>>
    /\ UNCHANGED <<coalescerVars, decoratorVars, pairVars>>

\* apply returns to the innermost withObservationTracking, which runs line
\* 123: registerOnChange on the access list that is global now.
WithObservationTrackingEnd ==
    /\ ~uncaught
    /\ Event
    /\ applying # <<>>
    /\ LET t == applying[Len(applying)]
           g == GLOBAL_ACCESS_LIST
           r == RegisterEach(registrars, <<>>, accessLists[g].entries, t)
       IN /\ registrars' = r.registrars
          /\ uuids' = uuids + Len(r.observationIds)
          /\ trackings' = [trackings EXCEPT
                              ![t].ended = TRUE,
                              ![t].list = g,
                              ![t].observationIds = r.observationIds]
    /\ applying' = SubSeq(applying, 1, Len(applying) - 1)
    /\ UNCHANGED <<GLOBAL_ACCESS_LIST, accessLists, store, changes, uncaught>>
    /\ UNCHANGED <<coalescerVars, decoratorVars, pairVars>>

\* A setter that assigns the private field before it notifies: onChange
\* sees the value written.
WriteMutatesFirst(o, k, value) ==
    /\ ~uncaught
    /\ Event
    /\ LET h == withMutation(ObsHeap, o, k)
       IN /\ registrars' = h.registrars
          /\ changes' = [i \in DOMAIN h.changes |->
                            IF i > Len(changes)
                            THEN [h.changes[i] EXCEPT !.seen = value]
                            ELSE h.changes[i]]
          /\ uncaught' = h.uncaught
          /\ store' = IF h.uncaught THEN store
                      ELSE [store EXCEPT ![o][k] = value]
    /\ trackings' = [t \in DOMAIN trackings |->
                        IF trackings[t].ended
                        THEN [trackings[t] EXCEPT
                                 !.written = @ \cup {<<o, k>>}]
                        ELSE trackings[t]]
    /\ UNCHANGED <<GLOBAL_ACCESS_LIST, accessLists, applying, uuids>>
    /\ UNCHANGED <<coalescerVars, decoratorVars, pairVars>>

\* The setter of property k of object o, lines 166-170: withMutation, then
\* the assignment of the private field unless a TypeError left the setter.
\* written records the properties written since each tracking returned.
Write(o, k, value) ==
    /\ ~uncaught
    /\ Event
    /\ LET h == withMutation(ObsHeap, o, k)
       IN /\ registrars' = h.registrars
          /\ changes' = h.changes
          /\ uncaught' = h.uncaught
          /\ store' = IF h.uncaught THEN store
                      ELSE [store EXCEPT ![o][k] = value]
    /\ trackings' = [t \in DOMAIN trackings |->
                        IF trackings[t].ended
                        THEN [trackings[t] EXCEPT
                                 !.written = @ \cup {<<o, k>>}]
                        ELSE trackings[t]]
    /\ UNCHANGED <<GLOBAL_ACCESS_LIST, accessLists, applying, uuids>>
    /\ UNCHANGED <<coalescerVars, decoratorVars, pairVars>>

ObsNext ==
    \/ WithObservationTrackingBegin
    \/ \E o \in Objects, k \in KeyPaths : Read(o, k)
    \/ WithObservationTrackingEnd
    \/ \E o \in Objects, k \in KeyPaths, value \in Values : Write(o, k, value)

ObsSpec == Init /\ [][ObsNext]_vars

\* The step invokes the onChange of tracking t.
Fires(t) ==
    \E i \in DOMAIN changes' : i > Len(changes) /\ changes'[i].tracking = t

\* The onChange of tracking t has been invoked.
Fired(t) == \E i \in DOMAIN changes : changes[i].tracking = t

\* C18. After withObservationTracking(apply, onChange) has returned, where
\* apply read property k of object o, the first write to k of o invokes
\* onChange.
C18_FirstWriteFires ==
    [][\A t \in DOMAIN trackings, o \in Objects, k \in KeyPaths :
          (/\ <<o, k>> \in trackings[t].reads
           /\ <<o, k>> \notin trackings[t].written
           /\ <<o, k>> \in trackings'[t].written) => Fires(t)]_vars

\* C19. A write to a property that the apply of a tracking did not read, on
\* an object it read from or on another object, does not invoke the
\* onChange of that tracking, whatever was written before: every onChange
\* invocation was made by a write to a property that its apply read.
C19_UntrackedNeverFires ==
    \A i \in DOMAIN changes :
        <<changes[i].object, changes[i].keyPath>> \in
            trackings[changes[i].tracking].reads

\* A tracking that read a property has returned, properties it did not read
\* were written on the object it read and on the other object, and its
\* onChange has not been invoked.
C19_Witness ==
    \E t \in DOMAIN trackings :
        /\ trackings[t].ended
        /\ ~Fired(t)
        /\ \E o \in Objects, k, j \in KeyPaths :
              /\ <<o, k>> \in trackings[t].reads
              /\ <<o, j>> \in trackings[t].written \ trackings[t].reads
              /\ \E p \in Objects \ {o} :
                    <<p, k>> \in trackings[t].written \ trackings[t].reads

----------------------------------------------------------------------------
(* Binding decorators: src/unnamed/part_003. Property reads, assignments  *)
(* and calls of printName on the instances of the three example classes.  *)

\* The class of each instance, lines 88-101, and the classes whose
\* prototype holds printName as the accessor that bound_method returns: by
\* @bound_method on the method, line 70, or by @autobind on the class, line
\* 79, which applies bound_method to every method of the prototype.
ClassOf(x) ==
    IF x \in {"na", "nb"} THEN "NormalClass"
    ELSE IF x \in {"aa", "ab"} THEN "AutobindMethod"
    ELSE "AutobindClass"
Decorated(class) == class \in {"AutobindMethod", "AutobindClass"}

\* The function values: the method as the class body defines it, and the
\* method bound to an instance.
Method == [kind |-> "method", this |-> "none"]
Bound(x) == [kind |-> "bound", this |-> x]

\* The this a call of function fn runs with when it is called on receiver.
ThisOf(fn, receiver) == IF fn.kind = "bound" THEN fn.this ELSE receiver

\* A getter that returns originalMethod as it is.
bound_method_getUnbound(this) == Method

\* The getter of the accessor, lines 13-15: originalMethod.bind(this).
bound_method_get(this) == Bound(this)

\* The setter of the accessor, lines 16-22: defineProperty on this, which
\* gives the instance an own data property holding value.
bound_method_set(this, value) == [own EXCEPT ![this] = value]

\* x.printName read: the own property if there is one, else the property
\* of the prototype, a method or the accessor.
Get(x) ==
    IF own[x] # NoOwn THEN own[x]
    ELSE IF Decorated(ClassOf(x)) THEN bound_method_get(x)
    ELSE Method

\* x.printName = value: an own data property is written; without one, the
\* accessor of the prototype runs its setter, and a method on the prototype
\* lets the assignment create the own property.
Set(x, value) ==
    IF own[x] = NoOwn /\ Decorated(ClassOf(x))
    THEN bound_method_set(x, value)
    ELSE [own EXCEPT ![x] = value]

\* x.printName = y.printName, lines 91, 97, 103, on two instances of one
\* class.
Assign(x, y) ==
    /\ ClassOf(x) = ClassOf(y)
    /\ own' = Set(x, Get(y))
    /\ UNCHANGED lastCall
    /\ UNCHANGED <<coalescerVars, observationVars, pairVars>>

\* x.printName(), lines 92, 98, 104.
Call(x) ==
    /\ lastCall' = [from |-> x, receiver |-> x, fn |-> Get(x),
                    this |-> ThisOf(Get(x), x)]
    /\ UNCHANGED own
    /\ UNCHANGED <<coalescerVars, observationVars, pairVars>>

\* const f = x.printName; f(): the call has no receiver.
CallDetached(x) ==
    /\ lastCall' = [from |-> x, receiver |-> "undefined", fn |-> Get(x),
                    this |-> ThisOf(Get(x), "undefined")]
    /\ UNCHANGED own
    /\ UNCHANGED <<coalescerVars, observationVars, pairVars>>

BindNext ==
    \/ \E x, y \in Instances : Assign(x, y)
    \/ \E x \in Instances : Call(x)
    \/ \E x \in Instances : CallDetached(x)

BindSpec == Init /\ [][BindNext]_vars

\* The instances of the class that has @bound_method on printName.
BoundMethodInstances == {x \in Instances : ClassOf(x) = "AutobindMethod"}

\* C20. For any two instances aa and ab of the class with @bound_method,
\* after aa.printName = ab.printName a call aa.printName() runs with
\* this = ab.
C20_AssignedRunsWithSource ==
    [][\A x, y \in BoundMethodInstances :
          Assign(x, y) => ThisOf(Get(x), x)' = y]_vars

\* C20, amended. A method read from an instance X that was not assigned a
\* printName of its own is bound to X: it runs with this = X with or
\* without a receiver. So aa.printName = ab.printName on such an ab makes
\* aa hold the method bound to ab, and from then on aa.printName() runs
\* with this = ab; when ab was assigned a printName before, aa gets the
\* function ab holds, with the this that function is bound to.
C20_BoundToInstanceReadFrom ==
    [][\A x, y \in BoundMethodInstances :
          /\ (own[y] = NoOwn /\ (Call(y) \/ CallDetached(y))) =>
                 lastCall'.this = y
          /\ (own[y] = NoOwn /\ Assign(x, y)) => own'[x] = Bound(y)
          /\ (own[y] # NoOwn /\ Assign(x, y)) => own'[x] = own[y]
          /\ (own[x] = Bound(y) /\ Call(x)) => lastCall'.this = y]_vars

\* aa.printName() has run with this = ab, read from aa, and ab.printName
\* was never assigned.
C20_Witness ==
    /\ lastCall.from = "aa"
    /\ lastCall.receiver = "aa"
    /\ lastCall.this = "ab"
    /\ own["ab"] = NoOwn

\* The instances of the class that has @autobind.
AutobindInstances == {x \in Instances : ClassOf(x) = "AutobindClass"}

\* C21. For any two instances ca and cb of the class with @autobind, after
\* ca.printName = cb.printName a call ca.printName() runs with this = ca.
C21_AutobindRunsWithReceiver ==
    [][\A x, y \in AutobindInstances :
          Assign(x, y) => ThisOf(Get(x), x)' = x]_vars

----------------------------------------------------------------------------
(* The completion step of a leader and what follows it *)

\* C22. Order of the completion of a leader, on success and on failure: in
\* the step in which the operation of leader l ends, every continuation of
\* the queue is resumed with the outcome, the queue is emptied and the lock
\* is released, while the caller of l has not resumed yet; the step after
\* it resumes the caller of l, which finds the followers resumed, the queue
\* empty and the lock free, and no step of another caller comes between.
C22_CompletionOrder ==
    [][\A l \in Leaders :
          /\ Completes(l) =>
                /\ \A i \in DOMAIN continuationQueue :
                       conts'[continuationQueue[i]].state =
                           IF calls'[l].op.state = "returned"
                           THEN "resolved" ELSE "rejected"
                /\ continuationQueue' = <<>>
                /\ ~lock'
                /\ calls'[l].pc = "settled"
                /\ calls'[l].promise.state =
                       IF calls'[l].op.state = "returned"
                       THEN "resolved" ELSE "rejected"
                /\ Head(microtasks') = l
          /\ calls[l].pc = "settled" =>
                /\ continuationQueue = <<>>
                /\ ~lock
                /\ \A f \in Followers(l) : calls[f].promise.state # "pending"
                /\ calls'[l].pc = "observed"
                /\ Len(calls') = Len(calls)
                /\ \A c \in DOMAIN calls \ {l} : calls'[c] = calls[c]]_vars

\* A generation that succeeded is over, and the operation of the next
\* leader has failed with a follower queued: its followers are resumed, its
\* own caller is not yet.
C22_Witness ==
    \E a, b \in Leaders :
        /\ calls[a].op.state = "returned" /\ Followers(a) # {}
        /\ calls[a].pc = "observed"
        /\ calls[b].op.state = "threw" /\ Followers(b) # {}
        /\ calls[b].pc = "settled"

\* C23. Queue entries never cross generations: a continuation in the queue
\* belongs to a follower of the leader whose operation is executing now,
\* which arrived after that leader; and a follower that is resumed has the
\* outcome of its own leader, whose operation is over. So no entry is left
\* when the next leader begins, and no follower gets the outcome of another
\* generation.
C23_NoCrossGeneration ==
    /\ \A i \in DOMAIN continuationQueue :
           LET c == CallOf(continuationQueue[i])
           IN /\ calls[c].role = "follower"
              /\ calls[c].leader \in InFlight
              /\ calls[c].leader < c
    /\ \A c \in DOMAIN calls :
           (calls[c].role = "follower"
              /\ calls[c].promise.state # "pending") =>
               LET g == calls[c].leader
               IN /\ calls[g].op.state # "running"
                  /\ calls[c].promise = calls[g].promise
                  /\ \A i \in DOMAIN continuationQueue :
                         continuationQueue[i] # calls[c].cont

\* Two generations with different payloads are over, and a follower of each
\* has observed the payload of its own.
C23_Witness ==
    \E a, b \in Leaders :
        /\ calls[a].op.state = "returned" /\ calls[b].op.state = "returned"
        /\ calls[a].op.value # calls[b].op.value
        /\ \E c \in Followers(a) : calls[c].pc = "observed"
        /\ \E c \in Followers(b) : calls[c].pc = "observed"

\* C24. Empty queue: when the operation of leader l ends with no
\* continuation queued, the step resumes nothing and changes no
\* continuation and no stack of an error, the queue stays empty, the lock
\* is released, and the promise of l is settled with the payload or with
\* the error thrown, its caller being the only one due to resume.
C24_EmptyQueueCompletion ==
    [][\A l \in Leaders :
          (Completes(l) /\ continuationQueue = <<>>) =>
              /\ continuationQueue' = <<>>
              /\ conts' = conts
              /\ resumeLog' = resumeLog
              /\ \A e \in DOMAIN errors : errors'[e] = errors[e]
              /\ \A e \in DOMAIN errors' \ DOMAIN errors :
                     errors'[e].stack[1] = errors'[e].message
                     /\ Len(errors'[e].stack) = 2
              /\ ~lock'
              /\ calls'[l].promise =
                     IF calls'[l].op.state = "returned"
                     THEN PromiseResolve(Pending, calls'[l].op.value)
                     ELSE PromiseReject(Pending, calls'[l].op.error)
              /\ \A c \in DOMAIN calls \ {l} : calls'[c] = calls[c]
              /\ microtasks' = <<l>>]_vars

\* Two leaders in a row had no follower: the caller of the first has
\* observed a payload, the caller of the second an error.
C24_Witness ==
    /\ Len(calls) >= 2
    /\ conts = <<>>
    /\ calls[1].op.state = "returned" /\ calls[1].pc = "observed"
    /\ calls[2].op.state = "threw" /\ calls[2].pc = "observed"
    /\ calls[2].promise.state = "rejected"

----------------------------------------------------------------------------
(* src/unnamed/part_002 beside src/CaseStudy/request_coalesce.ts: each     *)
(* coalescer is a record s of its own fields and objects, and each step of *)
(* its code a function from the record before to the record after.         *)

\* The objects of coalescer s that a synchronous segment reads and writes.
HeapOf(s) == [conts |-> s.conts, errors |-> s.errors, log |-> s.resumeLog]

\* The heap of s with a new Error of message m thrown from `origin`.
ThrownIn(s, m, origin) ==
    [HeapOf(s) EXCEPT
        !.errors = Append(@, [message |-> m, stack |-> <<m, origin>>])]

\* A caller of coalescer s may run request().
CallerRunsIn(s) == s.segment = "caller" \/ s.microtasks = <<>>

\* Call l of coalescer s is a leader suspended at the await named pc, and the
\* event loop is ready to run the event that resumes it.
AwaitingIn(s, l, pc) ==
    /\ s.microtasks = <<>>
    /\ l \in DOMAIN s.calls
    /\ s.calls[l].role = "leader" /\ s.calls[l].pc = pc

\* The followers of s that the heap h settles, in the order h notifies them.
RECURSIVE NotifiedIn(_, _, _)
NotifiedIn(s, h, log) ==
    IF log = <<>> THEN <<>>
    ELSE LET k == Head(log).cont
             c == CHOOSE c \in DOMAIN s.calls : s.calls[c].cont = k
         IN IF s.conts[k].state = "pending" /\ h.conts[k].state # "pending"
            THEN <<c>> \o NotifiedIn(s, h, Tail(log))
            ELSE NotifiedIn(s, h, Tail(log))

\* The end of leader l's request() in s: r is what resumeByReturning or
\* resumeByThrowing left, p the settlement of l's own promise. The caller of
\* the leader is due to resume first, then those of the followers notified.
SettleIn(s, l, r, p) ==
    LET h == r.heap
        woken == NotifiedIn(s, h,
                            SubSeq(h.log, Len(s.resumeLog) + 1, Len(h.log)))
        isWoken(c) == \E i \in DOMAIN woken : woken[i] = c
    IN [s EXCEPT
           !.conts = h.conts,
           !.errors = h.errors,
           !.resumeLog = h.log,
           !.continuationQueue = r.queue,
           !.calls = [c \in DOMAIN s.calls |->
                         IF c = l
                         THEN [s.calls[c] EXCEPT !.pc = "settled",
                                                 !.promise = p]
                         ELSE IF isWoken(c)
                         THEN [s.calls[c] EXCEPT
                                  !.pc = "settled",
                                  !.promise =
                                      Outcome(h.conts[s.calls[c].cont])]
                         ELSE s.calls[c]],
           !.microtasks = @ \o <<l>> \o woken,
           !.segment = "leader"]

\* The next reaction job of s: a caller's `await coalescer.request()`
\* resumes.
WakeIn(s) ==
    [s EXCEPT !.calls[Head(s.microtasks)].pc = "observed",
              !.microtasks = Tail(@),
              !.segment = "caller"]

(* request_coalesce.ts, on a record *)

\* request() up to its first suspension: lines 91-94.
CaseStudyRequest(s) ==
    LET c == Len(s.calls) + 1
        k == Len(s.conts) + 1
    IN IF s.lock
       THEN [s EXCEPT
                !.conts = Append(@, NewContinuation(c)),
                !.continuationQueue = coalesce(@, k),
                !.calls = Append(@, [role |-> "follower", pc |-> "suspended",
                                     cont |-> k, promise |-> Pending]),
                !.segment = "caller"]
       ELSE [s EXCEPT
                !.lock = TRUE,
                !.calls = Append(@, [role |-> "leader", pc |-> "fetching",
                                     cont |-> 0, promise |-> Pending]),
                !.segment = "caller"]

\* `await someFetchRequest()` yields a Response: lines 94-95.
CaseStudyFetched(s, l) ==
    [s EXCEPT !.calls[l].pc = "decoding", !.segment = "leader"]

\* Lines 96-97, then `finally`.
CaseStudyReturns(s, l, payload) ==
    [SettleIn(s, l, resumeByReturning(HeapOf(s), s.continuationQueue, payload),
              PromiseResolve(Pending, payload))
        EXCEPT !.lock = FALSE]

\* Lines 98-100, then `finally`; the error has message m.
CaseStudyThrows(s, l, m, origin) ==
    LET e == Len(s.errors) + 1
    IN [SettleIn(s, l,
                 resumeByThrowing(ThrownIn(s, m, origin),
                                  s.continuationQueue, e),
                 PromiseReject(Pending, e))
           EXCEPT !.lock = FALSE]

(* part_002 *)

\* The resolve and reject functions of the Promise under a Continuation.
Part002PromiseResolve(p, value) ==
    IF p.state = "pending"
    THEN [p EXCEPT !.state = "resolved", !.value = value]
    ELSE p

Part002PromiseReject(p, e) ==
    IF p.state = "pending"
    THEN [p EXCEPT !.state = "rejected", !.error = e]
    ELSE p

\* new Continuation(): lines 58-75.
Part002NewContinuation(c) ==
    [state |-> "pending", value |-> "none", error |-> 0,
     initialCallStack |-> <<"coalesce", "request", ToString(c)>>]

\* Continuation.resumeByReturning(value): lines 82-84.
Part002ContinuationResumeByReturning(h, k, value) ==
    [h EXCEPT !.conts[k] = Part002PromiseResolve(@, value),
              !.log = Append(@, [cont |-> k, state |-> "resolved",
                                 value |-> value, error |-> 0])]

\* Continuation.resumeByThrowing(error): lines 92-99.
Part002ContinuationResumeByThrowing(h, k, e) ==
    [h EXCEPT !.errors[e].stack =
                  <<Head(@)>> \o h.conts[k].initialCallStack,
              !.conts[k] = Part002PromiseReject(@, e),
              !.log = Append(@, [cont |-> k, state |-> "rejected",
                                 value |-> "none", error |-> e])]

\* RequestCoalescer.coalesce(): line 134.
Part002coalesce(q, k) == Append(q, k)

\* Line 166.
RECURSIVE Part002ForEachResumeByReturning(_, _, _)
Part002ForEachResumeByReturning(h, q, result) ==
    IF q = <<>> THEN h
    ELSE Part002ForEachResumeByReturning(
             Part002ContinuationResumeByReturning(h, Head(q), result),
             Tail(q), result)

\* Line 176.
RECURSIVE Part002ForEachResumeByThrowing(_, _, _)
Part002ForEachResumeByThrowing(h, q, e) ==
    IF q = <<>> THEN h
    ELSE Part002ForEachResumeByThrowing(
             Part002ContinuationResumeByThrowing(h, Head(q), e), Tail(q), e)

\* RequestCoalescer.resumeByReturning(result): lines 165-168.
Part002resumeByReturning(h, q, result) ==
    [heap |-> Part002ForEachResumeByReturning(h, q, result), queue |-> <<>>]

\* RequestCoalescer.resumeByThrowing(e): lines 175-178.
Part002resumeByThrowing(h, q, e) ==
    [heap |-> Part002ForEachResumeByThrowing(h, q, e), queue |-> <<>>]

\* request() up to its first suspension: lines 145-148.
Part002Request(s) ==
    LET c == Len(s.calls) + 1
        k == Len(s.conts) + 1
    IN IF s.lock
       THEN [s EXCEPT
                !.conts = Append(@, Part002NewContinuation(c)),
                !.continuationQueue = Part002coalesce(@, k),
                !.calls = Append(@, [role |-> "follower", pc |-> "suspended",
                                     cont |-> k, promise |-> Pending]),
                !.segment = "caller"]
       ELSE [s EXCEPT
                !.lock = TRUE,
                !.calls = Append(@, [role |-> "leader", pc |-> "fetching",
                                     cont |-> 0, promise |-> Pending]),
                !.segment = "caller"]

\* `await someFetchRequest()` yields a Response: lines 148-149.
Part002Fetched(s, l) ==
    [s EXCEPT !.calls[l].pc = "decoding", !.segment = "leader"]

\* Lines 150-151, then `finally`.
Part002Returns(s, l, payload) ==
    [SettleIn(s, l,
              Part002resumeByReturning(HeapOf(s), s.continuationQueue,
                                       payload),
              Part002PromiseResolve(Pending, payload))
        EXCEPT !.lock = FALSE]

\* Lines 152-154, then `finally`; the error has message m.
Part002Throws(s, l, m, origin) ==
    LET e == Len(s.errors) + 1
    IN [SettleIn(s, l,
                 Part002resumeByThrowing(ThrownIn(s, m, origin),
                                         s.continuationQueue, e),
                 Part002PromiseReject(Pending, e))
           EXCEPT !.lock = FALSE]

(* The same arrivals and the same outcomes given to both *)

PairRequest ==
    /\ Len(caseStudy.calls) < MaxCalls
    /\ CallerRunsIn(caseStudy) /\ CallerRunsIn(part002)
    /\ caseStudy' = CaseStudyRequest(caseStudy)
    /\ part002' = Part002Request(part002)
    /\ UNCHANGED <<coalescerVars, observationVars, decoratorVars>>

PairFetchResolved(l) ==
    /\ AwaitingIn(caseStudy, l, "fetching")
    /\ AwaitingIn(part002, l, "fetching")
    /\ caseStudy' = CaseStudyFetched(caseStudy, l)
    /\ part002' = Part002Fetched(part002, l)
    /\ UNCHANGED <<coalescerVars, observationVars, decoratorVars>>

PairFetchRejected(l, m) ==
    /\ AwaitingIn(caseStudy, l, "fetching")
    /\ AwaitingIn(part002, l, "fetching")
    /\ caseStudy' = CaseStudyThrows(caseStudy, l, m, "fetch")
    /\ part002' = Part002Throws(part002, l, m, "fetch")
    /\ UNCHANGED <<coalescerVars, observationVars, decoratorVars>>

PairDecodeResolved(l, payload) ==
    /\ AwaitingIn(caseStudy, l, "decoding")
    /\ AwaitingIn(part002, l, "decoding")
    /\ caseStudy' = CaseStudyReturns(caseStudy, l, payload)
    /\ part002' = Part002Returns(part002, l, payload)
    /\ UNCHANGED <<coalescerVars, observationVars, decoratorVars>>

PairDecodeRejected(l, m) ==
    /\ AwaitingIn(caseStudy, l, "decoding")
    /\ AwaitingIn(part002, l, "decoding")
    /\ caseStudy' = CaseStudyThrows(caseStudy, l, m, "json")
    /\ part002' = Part002Throws(part002, l, m, "json")
    /\ UNCHANGED <<coalescerVars, observationVars, decoratorVars>>

PairWake ==
    /\ caseStudy.microtasks # <<>>
    /\ part002.microtasks # <<>>
    /\ caseStudy' = WakeIn(caseStudy)
    /\ part002' = WakeIn(part002)
    /\ UNCHANGED <<coalescerVars, observationVars, decoratorVars>>

PairNext ==
    \/ PairRequest
    \/ \E l \in 1..MaxCalls : PairFetchResolved(l)
    \/ \E l \in 1..MaxCalls, m \in Messages : PairFetchRejected(l, m)
    \/ \E l \in 1..MaxCalls, p \in Payloads : PairDecodeResolved(l, p)
    \/ \E l \in 1..MaxCalls, m \in Messages : PairDecodeRejected(l, m)
    \/ PairWake

PairSpec == Init /\ [][PairNext]_vars

\* C25. Given the same request() arrivals and the same outcomes of the
\* underlying operation, the coalescer of request_coalesce.ts and that of
\* part_002 have the same lock value, the same continuations in the same
\* queue order, and for every call the same promise settlement, observed by
\* its caller at the same point and in the same order, with the same error
\* objects.
C25_SameBehaviour ==
    /\ caseStudy.lock = part002.lock
    /\ caseStudy.continuationQueue = part002.continuationQueue
    /\ [i \in DOMAIN caseStudy.continuationQueue |->
           caseStudy.conts[caseStudy.continuationQueue[i]]]
       = [i \in DOMAIN part002.continuationQueue |->
           part002.conts[part002.continuationQueue[i]]]
    /\ DOMAIN caseStudy.calls = DOMAIN part002.calls
    /\ \A c \in DOMAIN caseStudy.calls :
           /\ caseStudy.calls[c].promise = part002.calls[c].promise
           /\ caseStudy.calls[c].pc = part002.calls[c].pc
           /\ caseStudy.calls[c].role = part002.calls[c].role
    /\ caseStudy.microtasks = part002.microtasks
    /\ caseStudy.errors = part002.errors
    /\ caseStudy.conts = part002.conts

\* Both coalescers have had a leader fail with two followers queued in
\* order, all three callers having observed the error, and then a second
\* leader return a payload to its caller.
C25_Witness ==
    /\ Len(caseStudy.calls) = 4 /\ Len(part002.calls) = 4
    /\ \A s \in {caseStudy, part002} :
           /\ s.calls[1].role = "leader"
           /\ s.calls[2].role = "follower" /\ s.calls[3].role = "follower"
           /\ \A c \in 1..3 : /\ s.calls[c].pc = "observed"
                              /\ s.calls[c].promise.state = "rejected"
           /\ s.calls[2].cont < s.calls[3].cont
           /\ s.calls[4].role = "leader"
           /\ s.calls[4].pc = "observed"
           /\ s.calls[4].promise.state = "resolved"
           /\ ~s.lock /\ s.continuationQueue = <<>>

----------------------------------------------------------------------------
(* What a follower finds on waking *)

\* Follower c's caller observes its outcome in this step.
Observes(c) ==
    /\ c \in DOMAIN calls
    /\ calls[c].role = "follower"
    /\ calls[c].pc = "settled"
    /\ calls'[c].pc = "observed"

\* The calls that arrived after the generation of leader g was resumed.
ArrivedAfter(g) ==
    {d \in DOMAIN calls : d > g /\ calls[d].leader # g}

\* C26 as stated. Whenever the caller of a follower observes its outcome,
\* the lock is false and the queue is empty.
C26_FreeOnFollowerWake ==
    [][\A c \in DOMAIN calls :
          Observes(c) => (~lock' /\ continuationQueue' = <<>>)]_vars

\* C26. When the caller of follower c observes its outcome, the generation
\* c belonged to is over: the operation of its leader has ended and the
\* caller of that leader has observed it, the continuation of c is settled
\* and no longer queued, and whatever is queued belongs to calls that
\* arrived after the generation was resumed and follow a leader in flight.
\* The lock is false and the queue empty exactly when no such call has
\* arrived, that is, unless a caller resumed earlier (that of the leader or
\* of an earlier follower) has called request() again. A call arriving
\* never joins a generation one of whose followers has been observed: it
\* leads a new operation when the lock is free and follows the leader in
\* flight otherwise.
C26_GenerationOverOnFollowerWake ==
    [][/\ \A c \in DOMAIN calls :
             Observes(c) =>
                 LET g == calls[c].leader
                 IN /\ calls[g].op.state \in {"returned", "threw"}
                    /\ calls[g].pc = "observed"
                    /\ conts[calls[c].cont].state # "pending"
                    /\ \A i \in DOMAIN continuationQueue' :
                           /\ continuationQueue'[i] # calls[c].cont
                           /\ CallOf(continuationQueue'[i]) \in ArrivedAfter(g)
                           /\ calls[CallOf(continuationQueue'[i])].leader
                                  \in InFlight
                    /\ lock' <=> (InFlight # {})
                    /\ InFlight \subseteq ArrivedAfter(g)
                    /\ (ArrivedAfter(g) = {}) =>
                           (~lock' /\ continuationQueue' = <<>>)
                    /\ (ArrivedAfter(g) # {}) => lock'
       /\ Arrives =>
             LET n == Len(calls')
             IN /\ calls'[n].role = "leader" <=> ~lock
                /\ calls'[n].leader \in InFlight'
                /\ \A c \in DOMAIN calls :
                       (calls[c].role = "follower"
                        /\ calls[c].pc \in {"settled", "observed"})
                           => calls'[n].leader # calls[c].leader]_vars

\* The caller of the leader, resumed first, has called request() again and
\* leads a new operation; the caller of the first follower has observed its
\* outcome with the lock held, and that of the second is still due.
C26_Witness ==
    /\ Len(calls) = 4
    /\ calls[1].role = "leader" /\ calls[1].pc = "observed"
    /\ calls[2].role = "follower" /\ calls[2].pc = "observed"
    /\ calls[3].role = "follower" /\ calls[3].pc = "settled"
    /\ calls[4].role = "leader" /\ calls[4].pc = "fetching"
    /\ microtasks = <<3>>
    /\ lock

----------------------------------------------------------------------------
(* The two suspension points of a leader *)

\* C27. The lock is held while a leader awaits the fetch and while it
\* awaits the decode: the step from the first await to the second changes
\* neither the lock nor the queue and invokes nothing; a request() arriving
\* while leader l awaits the decode is suspended as a follower of l at the
\* end of the queue, without an invocation of the operation; and when the
\* operation of l throws, at either await, every queued continuation and
\* the promise of every queued follower is rejected with the error thrown,
\* which also rejects the promise of l, the queue is emptied and the lock
\* released.
C27_LockAcrossBothAwaits ==
    [][/\ InFlight # {} => lock
       /\ InFlight' # {} => lock'
       /\ \A l \in Leaders :
             /\ (calls[l].pc = "fetching" /\ calls'[l].pc = "decoding") =>
                    /\ lock /\ lock'
                    /\ continuationQueue' = continuationQueue
                    /\ invocations' = invocations
             /\ (calls[l].pc = "decoding" /\ Arrives) =>
                    LET n == Len(calls')
                    IN /\ calls'[n].role = "follower"
                       /\ calls'[n].pc = "suspended"
                       /\ calls'[n].leader = l
                       /\ calls'[n].op = NoOperation
                       /\ continuationQueue' =
                              Append(continuationQueue, calls'[n].cont)
                       /\ conts'[calls'[n].cont].state = "pending"
                       /\ invocations' = invocations
                       /\ lock'
             /\ (Completes(l) /\ calls'[l].op.state = "threw") =>
                    LET e == calls'[l].op.error
                    IN /\ calls[l].pc \in {"fetching", "decoding"}
                       /\ errors'[e].message = calls'[l].op.message
                       /\ calls'[l].promise = PromiseReject(Pending, e)
                       /\ \A i \in DOMAIN continuationQueue :
                              LET k == continuationQueue[i]
                              IN /\ conts[k].state = "pending"
                                 /\ Outcome(conts'[k])
                                        = PromiseReject(Pending, e)
                                 /\ calls'[CallOf(k)].promise
                                        = PromiseReject(Pending, e)
                                 /\ calls'[CallOf(k)].pc = "settled"
                       /\ continuationQueue' = <<>>
                       /\ ~lock']_vars

\* Leader 1 awaits the decode and the last segment run was a caller's: the
\* request() that made call 2 a queued follower arrived after the fetch had
\* completed, and the operation has been invoked once.
C27_Witness ==
    /\ Len(calls) = 2
    /\ calls[1].role = "leader" /\ calls[1].pc = "decoding"
    /\ segment = "caller"
    /\ calls[2].role = "follower" /\ calls[2].pc = "suspended"
    /\ continuationQueue = <<calls[2].cont>>
    /\ lock
    /\ invocations = 1

----------------------------------------------------------------------------
(* One shot, and the value onChange sees *)

\* The ids of the observations registered for tracking t.
ObservationIdsOf(t) ==
    {trackings[t].observationIds[j].observation :
        j \in DOMAIN trackings[t].observationIds}

\* C28. The onChange of one withObservationTracking call is invoked at most
\* once, whatever its apply read and whatever is written afterwards; once
\* it has been invoked, no registrar holds an observation registered for
\* that call, and no lookup set holds the id of one.
C28_OneShot ==
    \A t \in DOMAIN trackings :
        /\ Cardinality({i \in DOMAIN changes : changes[i].tracking = t}) <= 1
        /\ Fired(t) =>
               \A o \in Objects :
                   /\ \A id \in DOMAIN registrars[o].observations :
                          /\ registrars[o].observations[id].closure # t
                          /\ id \notin ObservationIdsOf(t)
                   /\ \A k \in DOMAIN registrars[o].lookups :
                          \A i \in DOMAIN registrars[o].lookups[k] :
                              registrars[o].lookups[k][i]
                                  \notin ObservationIdsOf(t)

\* The only tracking made read one property twice, so that two observations
\* were registered for it, and two writes of that property followed: the
\* first invoked onChange, the second did not.
C28_Witness ==
    /\ Len(trackings) = 1
    /\ trackings[1].ended
    /\ Len(trackings[1].observationIds) = 2
    /\ Cardinality(trackings[1].reads) = 1
    /\ trackings[1].written = trackings[1].reads
    /\ uuids = 4
    /\ events = 6
    /\ Len(changes) = 1
    /\ changes[1].tracking = 1

\* C29. Will-set: every onChange invoked by a step is invoked by a write of
\* one property, which its tracking had read; the value it sees in that
\* property is the one stored before the step, and the step changes the
\* stored value of that property only, after the invocations.
C29_WillSet ==
    [][\A i \in DOMAIN changes' \ DOMAIN changes :
          LET o == changes'[i].object
              k == changes'[i].keyPath
          IN /\ changes'[i].seen = store[o][k]
             /\ <<o, k>> \in trackings'[changes'[i].tracking].written
             /\ \A j \in DOMAIN changes' \ DOMAIN changes :
                    changes'[j].object = o /\ changes'[j].keyPath = k
             /\ \A p \in Objects, q \in KeyPaths :
                    store'[p][q] # store[p][q] => (p = o /\ q = k)]_vars

\* One tracking read a property and returned, and one write followed: its
\* onChange saw the initial value and the property now holds another.
C29_Witness ==
    /\ Len(trackings) = 1
    /\ events = 4
    /\ Len(changes) = 1
    /\ changes[1].seen = "v1"
    /\ store[changes[1].object][changes[1].keyPath] = "v2"

====
